---- MODULE Spec2Model ----
(***************************************************************************)
(* Model of the Sentinel backend (src/backend/src/main.rs, aws.rs): the    *)
(* trace aggregation handler get_cw_traces with its two cache tiers (the   *)
(* shared Redis tier and the process-local trace_cache map), the fan-out   *)
(* of per-endpoint metric queries, the synthesis of trace records and      *)
(* their ranking.                                                          *)
(*                                                                         *)
(* Conventions.                                                            *)
(*  - f64 values are held in half units: the f64 value v is the integer    *)
(*    2*v, so 50.5 is 101 and F64(100) is 100.0.                           *)
(*  - Rust strings that the code searches (endpoint names) are sequences   *)
(*    of one-character strings.                                            *)
(*  - Option<T> is a sequence of length 0 (None) or 1 (Some(x)).           *)
(*  - Result<T> is a record [ok |-> BOOLEAN, v |-> T].                     *)
(*  - The handler is split at its .await points, one action per segment.   *)
(***************************************************************************)
EXTENDS Integers, Sequences, FiniteSets

VARIABLES
    now,            \* the clock, in seconds (Instant::now / Redis' clock)
    redis_client,   \* AppState.redis_client is Some (TRUE) or None (FALSE)
    redis_status,   \* the Redis server: "up", "down" (connect fails), "error" (commands fail)
    redis_store,    \* the Redis keyspace: key -> Option [data, expires]
    trace_cache,    \* AppState.trace_cache: key -> Option CacheEntry
    pc,             \* per request: the handler's position
    ns,             \* per request: the ns query parameter
    minutes,        \* per request: the minutes query parameter
    shared_outcome, \* per request: what the shared-tier lookup gave
    local_read,     \* per request: the local tier was read by the lookup
    listing,        \* per request: "none", "ok" or "err" (cw_list_endpoints)
    tasks,          \* per request: the spawned sub-tasks, in spawn order
    response,       \* per request: Option of the computed response value
    cached_in_redis,\* per request: the local variable of that name
    resp,           \* per request: Option of the HTTP response returned
    served,         \* per request: "none", "shared", "local" or "computed"
    calls,          \* per request: calls made to the Metric Source Adapter
    prev,           \* per request: last_call[ns] as it was when the request arrived
    last_call,      \* per namespace: Option of the last completed call
    ncalls,         \* requests accepted so far
    hung,           \* the dependencies that have stopped answering, for good
    env,            \* the process environment: variable name -> it is set
    main_pc,        \* main: "startup" (before line 201) or "serving"
    job,            \* per collector job: its task's position and last cycle
    wakes,          \* sleeps of collector jobs that have ended so far
    window,         \* the last query window computed by the metric adapter
    vault,          \* the 1Password vault: username -> number of login items
    signup          \* per signup request: position, username and answer

vars == <<now, redis_client, redis_status, redis_store, trace_cache, pc, ns,
          minutes, shared_outcome, local_read, listing, tasks, response,
          cached_in_redis, resp, served, calls, prev, last_call, ncalls,
          hung, env, main_pc, job, wakes, window, vault, signup>>

\* ------------------------------------------------------------------ bounds

MaxCalls == 2
MaxTime == 300
TickStep == 100
MaxEndpointsFail == 2
MaxEndpointsRank == 3
MaxEndpointsMethod == 1
MaxEndpointsSpans == 1
MaxWakes == 2
MaxDigests == 1
MaxListed == 17

\* ------------------------------------------------------- program constants

TTL == 300
MaxFanout == 15
SubWindow == 5
DefaultMinutes == 60
StatusOk == 200
CollectorInterval == 10
FingerprintMax == 100

\* ----------------------------------------------------------------- values

None == <<>>
Some(x) == <<x>>
IsSome(o) == Len(o) = 1
Get(o) == o[1]

Ok(x) == [ok |-> TRUE, v |-> x]
Err == [ok |-> FALSE, v |-> 0]

F64(n) == 2 * n
AsU64(x) == IF x < 0 THEN 0 ELSE x \div 2

UnwrapOr(res, default) == IF res.ok THEN res.v ELSE default

DefaultLatency == F64(100)

\* mutant of DefaultRequests: a failed request-count query counts as no requests
DefaultRequestsZero == F64(0)

DefaultRequests == F64(1)
DefaultErrors == F64(0)

Requests == {1, 2}
Namespaces == {"nsA", "nsB"}
Keys == {<<"traces:", n>> : n \in Namespaces}

Min(a, b) == IF a <= b THEN a ELSE b

\* ------------------------------------------------------------ strings

Contains(s, pat) ==
    \E i \in 1..(Len(s) - Len(pat) + 1) : SubSeq(s, i, i + Len(pat) - 1) = pat

kw_get == <<"g", "e", "t">>
kw_list == <<"l", "i", "s", "t">>
kw_search == <<"s", "e", "a", "r", "c", "h">>
kw_verify == <<"v", "e", "r", "i", "f", "y">>
kw_activity == <<"a", "c", "t", "i", "v", "i", "t", "y">>
kw_update == <<"u", "p", "d", "a", "t", "e">>
kw_delete == <<"d", "e", "l", "e", "t", "e">>
kw_share == <<"s", "h", "a", "r", "e">>
kw_create == <<"c", "r", "e", "a", "t", "e">>

Digit(d) == <<"0", "1", "2", "3", "4", "5", "6", "7", "8", "9">>[d + 1]

RECURSIVE Digits(_)
Digits(n) == IF n < 10 THEN <<Digit(n)>> ELSE Digits(n \div 10) \o <<Digit(n % 10)>>

\* format!("{}", latency) for a non-negative f64 held in half units
DisplayF64(x) == Digits(x \div 2) \o (IF x % 2 = 1 THEN <<".", "5">> ELSE <<>>)

\* ------------------------------------------------------------ cache tiers

CacheKey(n) == <<"traces:", n>>

\* Value::to_string and serde_json::from_str::<Value>
JsonToString(value) == <<"json", value>>

\* mutant of JsonFromStr: whatever the string, its content is taken as the value
JsonFromStrLenient(s) == Ok(s[2])

JsonFromStr(s) == IF s[1] = "json" THEN Ok(s[2]) ELSE Err

\* mutant of SharedGet: the GET asks for a key no set ever wrote
SharedGetWrongKey(key) ==
    IF ~redis_client THEN [ok |-> FALSE, v |-> "absent"]
    ELSE IF redis_status = "down" THEN [ok |-> FALSE, v |-> "unreachable"]
    ELSE IF redis_status = "error" THEN [ok |-> FALSE, v |-> "error"]
    ELSE [ok |-> FALSE, v |-> "nil"]

\* mutant of SharedGet: the key was stored without a time to live
SharedGetNoExpiry(key) ==
    IF ~redis_client THEN [ok |-> FALSE, v |-> "absent"]
    ELSE IF redis_status = "down" THEN [ok |-> FALSE, v |-> "unreachable"]
    ELSE IF redis_status = "error" THEN [ok |-> FALSE, v |-> "error"]
    ELSE IF IsSome(redis_store[key])
         THEN Ok(Get(redis_store[key]).data)
    ELSE [ok |-> FALSE, v |-> "nil"]

\* Redis GET over a fresh connection: the reply converted to a String
SharedGet(key) ==
    IF ~redis_client THEN [ok |-> FALSE, v |-> "absent"]
    ELSE IF redis_status = "down" THEN [ok |-> FALSE, v |-> "unreachable"]
    ELSE IF redis_status = "error" THEN [ok |-> FALSE, v |-> "error"]
    ELSE IF IsSome(redis_store[key]) /\ now < Get(redis_store[key]).expires
         THEN Ok(Get(redis_store[key]).data)
    ELSE [ok |-> FALSE, v |-> "nil"]

\* Redis SETEX over a fresh connection
SharedSetOk == redis_client /\ redis_status = "up"

\* mutant of LocalGet: the expiry test turned round
LocalGetInverted(key) ==
    IF IsSome(trace_cache[key]) /\ Get(trace_cache[key]).expires_at < now
    THEN Some(Get(trace_cache[key]).data)
    ELSE None

\* mutant of LocalGet: an entry is still honoured at the instant it expires
LocalGetInclusive(key) ==
    IF IsSome(trace_cache[key]) /\ Get(trace_cache[key]).expires_at >= now
    THEN Some(Get(trace_cache[key]).data)
    ELSE None

\* trace_cache.read(), cache.get(key), and the expiry test
LocalGet(key) ==
    IF IsSome(trace_cache[key]) /\ Get(trace_cache[key]).expires_at > now
    THEN Some(Get(trace_cache[key]).data)
    ELSE None

NeedLocalStore(cached) == ~cached

\* ------------------------------------------------------------ synthesis

\* mutant of Take: the listing is not cut
TakeAll(s, n) == s

Take(s, n) == SubSeq(s, 1, IF Len(s) < n THEN Len(s) ELSE n)

\* mutant of InferMethod: the DELETE rule is tried before the PUT rule
InferMethodDeleteFirst(endpoint) ==
    IF Contains(endpoint, kw_get) \/ Contains(endpoint, kw_list)
       \/ Contains(endpoint, kw_search) \/ Contains(endpoint, kw_verify)
       \/ Contains(endpoint, kw_activity)
    THEN "GET"
    ELSE IF Contains(endpoint, kw_delete) THEN "DELETE"
    ELSE IF Contains(endpoint, kw_update) THEN "PUT"
    ELSE "POST"

InferMethod(endpoint) ==
    IF Contains(endpoint, kw_get) \/ Contains(endpoint, kw_list)
       \/ Contains(endpoint, kw_search) \/ Contains(endpoint, kw_verify)
       \/ Contains(endpoint, kw_activity)
    THEN "GET"
    ELSE IF Contains(endpoint, kw_update) THEN "PUT"
    ELSE IF Contains(endpoint, kw_delete) THEN "DELETE"
    ELSE "POST"

InferStatus(errors) == IF errors > 0 THEN "error" ELSE "success"

\* mutant of TraceId: the time of the call is hashed too
TraceIdWithTime(endpoint, latency) ==
    <<"md5", endpoint \o DisplayF64(latency) \o Digits(now)>>

\* format!("{:x}", md5::compute(format!("{}{}", endpoint, latency))): the digest
\* is kept as its preimage
TraceId(endpoint, latency) == <<"md5", endpoint \o DisplayF64(latency)>>

\* mutant of EstimateSpans: the "update" tier is missing
EstimateSpansNoUpdateTier(endpoint, latency) ==
    IF Contains(endpoint, kw_share) \/ Contains(endpoint, kw_create)
    THEN 8 + (AsU64(latency) \div 30)
    ELSE 4 + (AsU64(latency) \div 50)

EstimateSpans(endpoint, latency) ==
    IF Contains(endpoint, kw_share) \/ Contains(endpoint, kw_create)
    THEN 8 + (AsU64(latency) \div 30)
    ELSE IF Contains(endpoint, kw_update) THEN 7 + (AsU64(latency) \div 40)
    ELSE 4 + (AsU64(latency) \div 50)

Synthesize(t, at) ==
    [id |-> TraceId(t.endpoint, t.latency),
     method |-> InferMethod(t.endpoint),
     endpoint |-> t.endpoint,
     status |-> InferStatus(t.errors),
     duration |-> AsU64(t.latency),
     spans |-> EstimateSpans(t.endpoint, t.latency),
     service |-> "api-gateway",
     timestamp |-> at]

\* mutant of HasSignal: an endpoint without requests is kept
HasSignalInclusive(requests) == requests >= 0

HasSignal(requests) == requests > 0

RECURSIVE SynthesizeAll(_, _)
SynthesizeAll(results, at) ==
    IF results = <<>> THEN <<>>
    ELSE (IF HasSignal(Head(results).requests)
          THEN <<Synthesize(Head(results), at)>> ELSE <<>>)
         \o SynthesizeAll(Tail(results), at)

\* mutant of InOrder: equal durations count as out of order
InOrderStrict(a, b) == a.duration > b.duration

\* the comparator of traces.sort_by: b_dur.cmp(&a_dur) is not Greater,
\* i.e. a may stay before b
InOrder(a, b) == a.duration >= b.duration

\* slice::sort_by is a stable sort: x goes after every element it does not precede
RECURSIVE InsertSorted(_, _)
InsertSorted(x, s) ==
    IF s = <<>> THEN <<x>>
    ELSE IF InOrder(Head(s), x) THEN <<Head(s)>> \o InsertSorted(x, Tail(s))
    ELSE <<x>> \o s

RECURSIVE SortByDuration(_)
SortByDuration(s) ==
    IF s = <<>> THEN <<>>
    ELSE InsertSorted(s[Len(s)], SortByDuration(SubSeq(s, 1, Len(s) - 1)))

BuildResponse(results, n, m, at) ==
    [traces |-> SortByDuration(SynthesizeAll(results, at)),
     namespace |-> n,
     minutes |-> m]

Json(value) == [status |-> StatusOk, body |-> value]

\* ------------------------------------------------------------ the handler

reqVars == <<pc, ns, minutes, shared_outcome, local_read, listing, tasks,
             response, cached_in_redis, resp, served, calls, prev>>
envVars == <<now, redis_client, redis_status>>
collVars == <<env, main_pc, job, wakes>>
\* the state of the metric adapter's callers and of signup
otherVars == <<window, vault, signup>>

\* the dependency answers the calls made to it
Answers(dep) == dep \notin hung

\* the shared-tier calls of the handler reach Redis only through a client
SharedDep == IF redis_client THEN "redis" ELSE "none"

\* a request arrives, one of at most limit: lines 726-729
StartUpTo(r, nss, windows, limit) ==
    /\ pc[r] \in {"idle", "done"}
    /\ ncalls < limit
    /\ \E n \in nss, m \in windows :
        /\ ns' = [ns EXCEPT ![r] = n]
        /\ minutes' = [minutes EXCEPT ![r] = m]
        /\ prev' = [prev EXCEPT ![r] = last_call[n]]
    /\ pc' = [pc EXCEPT ![r] = "lookup_shared"]
    /\ shared_outcome' = [shared_outcome EXCEPT ![r] = "none"]
    /\ local_read' = [local_read EXCEPT ![r] = FALSE]
    /\ listing' = [listing EXCEPT ![r] = "none"]
    /\ tasks' = [tasks EXCEPT ![r] = <<>>]
    /\ response' = [response EXCEPT ![r] = None]
    /\ cached_in_redis' = [cached_in_redis EXCEPT ![r] = FALSE]
    /\ resp' = [resp EXCEPT ![r] = None]
    /\ served' = [served EXCEPT ![r] = "none"]
    /\ calls' = [calls EXCEPT ![r] = 0]
    /\ ncalls' = ncalls + 1
    /\ UNCHANGED <<collVars, otherVars, hung, envVars, redis_store, trace_cache, last_call>>

Start(r, nss, windows) == StartUpTo(r, nss, windows, MaxCalls)

\* mutant of ReturnCached: the payload is relabelled with the caller's window
ReturnCachedOwnWindow(r, value, tier, entry_expires) ==
    /\ pc' = [pc EXCEPT ![r] = "done"]
    /\ resp' = [resp EXCEPT ![r] = Some(Json([value EXCEPT !.minutes = minutes[r]]))]
    /\ served' = [served EXCEPT ![r] = tier]
    /\ last_call' = [last_call EXCEPT ![ns[r]] =
            Some([body |-> value, expires |-> entry_expires,
                  shared_ok |-> (tier = "shared"), computed |-> FALSE])]

\* return Json(cached_data): lines 740 and 751
ReturnCached(r, value, tier, entry_expires) ==
    /\ pc' = [pc EXCEPT ![r] = "done"]
    /\ resp' = [resp EXCEPT ![r] = Some(Json(value))]
    /\ served' = [served EXCEPT ![r] = tier]
    /\ last_call' = [last_call EXCEPT ![ns[r]] =
            Some([body |-> value, expires |-> entry_expires,
                  shared_ok |-> (tier = "shared"), computed |-> FALSE])]

\* mutant of SharedFallThrough: the failure is returned to the caller
SharedFailurePropagates(r, why) ==
    /\ pc' = [pc EXCEPT ![r] = "done"]
    /\ shared_outcome' = [shared_outcome EXCEPT ![r] = why]
    /\ resp' = [resp EXCEPT ![r] = Some([status |-> 500, body |-> why])]
    /\ UNCHANGED <<served, last_call>>

\* the shared-tier lookup gave nothing usable: fall through to line 746
SharedFallThrough(r, why) ==
    /\ pc' = [pc EXCEPT ![r] = "lookup_local"]
    /\ shared_outcome' = [shared_outcome EXCEPT ![r] = why]
    /\ UNCHANGED <<resp, served, last_call>>

\* lines 731-744
LookupShared(r) ==
    /\ pc[r] = "lookup_shared"
    /\ Answers(SharedDep)
    /\ LET g == SharedGet(CacheKey(ns[r]))
           d == IF g.ok THEN JsonFromStr(g.v) ELSE Err
       IN IF g.ok /\ d.ok
          THEN /\ ReturnCached(r, d.v, "shared", Get(redis_store[CacheKey(ns[r])]).expires)
               /\ shared_outcome' = [shared_outcome EXCEPT ![r] = "hit"]
          ELSE SharedFallThrough(r, IF g.ok THEN "bad_payload" ELSE g.v)
    /\ UNCHANGED <<collVars, otherVars, hung, envVars, redis_store, trace_cache, ns, minutes, local_read,
                   listing, tasks, response, cached_in_redis, calls, prev, ncalls>>

\* lines 746-757
LookupLocal(r) ==
    /\ pc[r] = "lookup_local"
    /\ local_read' = [local_read EXCEPT ![r] = TRUE]
    /\ LET e == LocalGet(CacheKey(ns[r]))
           d == IF IsSome(e) THEN JsonFromStr(Get(e)) ELSE Err
       IN IF IsSome(e) /\ d.ok
          THEN ReturnCached(r, d.v, "local", Get(trace_cache[CacheKey(ns[r])]).expires_at)
          ELSE /\ pc' = [pc EXCEPT ![r] = "list_endpoints"]
               /\ UNCHANGED <<resp, served, last_call>>
    /\ UNCHANGED <<collVars, otherVars, hung, envVars, redis_store, trace_cache, ns, minutes, shared_outcome,
                   listing, tasks, response, cached_in_redis, calls, prev, ncalls>>

\* the minutes argument of the three metric queries of a sub-task, for a
\* request whose own window is m: the literal 5 of lines 765-767
QueryWindow(m) == SubWindow

NewTask(endpoint, m) ==
    [endpoint |-> endpoint, stage |-> 0, latency |-> 0, requests |-> 0,
     errors |-> 0, failed |-> {}, window |-> QueryWindow(m)]

\* cw_list_endpoints(..).await.unwrap_or_default() and the spawn loop: lines 759-770
ListEndpoints(r, w) ==
    /\ pc[r] = "list_endpoints"
    /\ Answers("cloudwatch")
    /\ \E res \in w.listings :
        LET endpoints == UnwrapOr(res, <<>>)
            spawned == Take(endpoints, MaxFanout)
        IN /\ listing' = [listing EXCEPT ![r] = IF res.ok THEN "ok" ELSE "err"]
           /\ tasks' = [tasks EXCEPT ![r] = [i \in 1..Len(spawned) |-> NewTask(spawned[i], minutes[r])]]
    /\ calls' = [calls EXCEPT ![r] = @ + 1]
    /\ pc' = [pc EXCEPT ![r] = "fanout"]
    /\ UNCHANGED <<collVars, otherVars, hung, envVars, redis_store, trace_cache, ns, minutes, shared_outcome,
                   local_read, response, cached_in_redis, resp, served, prev,
                   last_call, ncalls>>

\* one metric query of a sub-task and its unwrap_or: lines 765-767
QueryStep(t, res) ==
    LET failed == IF res.ok THEN t.failed ELSE t.failed \cup {t.stage}
    IN IF t.stage = 0
       THEN [t EXCEPT !.latency = UnwrapOr(res, DefaultLatency),
                      !.stage = 1, !.failed = failed]
       ELSE IF t.stage = 1
       THEN [t EXCEPT !.requests = UnwrapOr(res, DefaultRequests),
                      !.stage = 2, !.failed = failed]
       ELSE [t EXCEPT !.errors = UnwrapOr(res, DefaultErrors),
                      !.stage = 3, !.failed = failed]

\* the queries a sub-task has issued so far (0 latency, 1 requests, 2 errors):
\* each call of lines 765-767 is made once the .await before it has returned
Issued(t) == 0..Min(t.stage, 2)

SubTaskQuery(r, w) ==
    /\ pc[r] = "fanout"
    /\ Answers("cloudwatch")
    /\ \E i \in 1..Len(tasks[r]) :
        /\ tasks[r][i].stage < 3
        /\ \E res \in (IF tasks[r][i].stage = 0 THEN w.lat
                       ELSE IF tasks[r][i].stage = 1 THEN w.req ELSE w.err) :
              tasks' = [tasks EXCEPT ![r][i] = QueryStep(@, res)]
    /\ calls' = [calls EXCEPT ![r] = @ + 1]
    /\ UNCHANGED <<collVars, otherVars, hung, envVars, redis_store, trace_cache, pc, ns, minutes,
                   shared_outcome, local_read, listing, response, cached_in_redis,
                   resp, served, prev, last_call, ncalls>>

\* mutant of Join: the handler goes on as soon as one sub-task has completed
JoinFirstCompleted(r) ==
    /\ pc[r] = "fanout"
    /\ \/ tasks[r] = <<>>
       \/ \E i \in 1..Len(tasks[r]) : tasks[r][i].stage = 3
    /\ response' = [response EXCEPT ![r] =
            Some(BuildResponse(tasks[r], ns[r], minutes[r], now))]
    /\ pc' = [pc EXCEPT ![r] = "store_shared"]
    /\ UNCHANGED <<collVars, otherVars, hung, envVars, redis_store, trace_cache, ns, minutes,
                   shared_outcome, local_read, listing, tasks, cached_in_redis,
                   resp, served, calls, prev, last_call, ncalls>>

\* join_all, the synthesis loop, the sort and the response value: lines 772-828
Join(r) ==
    /\ pc[r] = "fanout"
    /\ \A i \in 1..Len(tasks[r]) : tasks[r][i].stage = 3
    /\ response' = [response EXCEPT ![r] =
            Some(BuildResponse(tasks[r], ns[r], minutes[r], now))]
    /\ pc' = [pc EXCEPT ![r] = "store_shared"]
    /\ UNCHANGED <<collVars, otherVars, hung, envVars, redis_store, trace_cache, ns, minutes, shared_outcome,
                   local_read, listing, tasks, cached_in_redis, resp, served,
                   calls, prev, last_call, ncalls>>

\* lines 829-845
StoreShared(r) ==
    /\ pc[r] = "store_shared"
    /\ Answers(SharedDep)
    /\ IF SharedSetOk
       THEN /\ redis_store' = [redis_store EXCEPT ![CacheKey(ns[r])] =
                    Some([data |-> JsonToString(Get(response[r])),
                          expires |-> now + TTL])]
            /\ cached_in_redis' = [cached_in_redis EXCEPT ![r] = TRUE]
       ELSE UNCHANGED <<redis_store, cached_in_redis>>
    /\ pc' = [pc EXCEPT ![r] = "store_local"]
    /\ UNCHANGED <<collVars, otherVars, hung, envVars, trace_cache, ns, minutes, shared_outcome, local_read,
                   listing, tasks, response, resp, served, calls, prev,
                   last_call, ncalls>>

\* mutant of StoreLocal: the map is written without the lock, field by field,
\* and the expiry of an entry already there is not overwritten
StoreLocalTorn(r) ==
    /\ pc[r] = "store_local"
    /\ IF NeedLocalStore(cached_in_redis[r])
       THEN trace_cache' = [trace_cache EXCEPT ![CacheKey(ns[r])] =
                Some([data |-> JsonToString(Get(response[r])),
                      expires_at |-> IF IsSome(trace_cache[CacheKey(ns[r])])
                                     THEN Get(trace_cache[CacheKey(ns[r])]).expires_at
                                     ELSE now + TTL])]
       ELSE UNCHANGED trace_cache
    /\ pc' = [pc EXCEPT ![r] = "done"]
    /\ resp' = [resp EXCEPT ![r] = Some(Json(Get(response[r])))]
    /\ served' = [served EXCEPT ![r] = "computed"]
    /\ last_call' = [last_call EXCEPT ![ns[r]] =
            Some([body |-> Get(response[r]),
                  expires |-> IF cached_in_redis[r]
                              THEN Get(redis_store[CacheKey(ns[r])]).expires
                              ELSE now + TTL,
                  shared_ok |-> cached_in_redis[r], computed |-> TRUE])]
    /\ UNCHANGED <<collVars, otherVars, hung, envVars, redis_store, ns, minutes, shared_outcome, local_read,
                   listing, tasks, response, cached_in_redis, calls, prev, ncalls>>

\* lines 847-857
StoreLocal(r) ==
    /\ pc[r] = "store_local"
    /\ IF NeedLocalStore(cached_in_redis[r])
       THEN trace_cache' = [trace_cache EXCEPT ![CacheKey(ns[r])] =
                Some([data |-> JsonToString(Get(response[r])),
                      expires_at |-> now + TTL])]
       ELSE UNCHANGED trace_cache
    /\ pc' = [pc EXCEPT ![r] = "done"]
    /\ resp' = [resp EXCEPT ![r] = Some(Json(Get(response[r])))]
    /\ served' = [served EXCEPT ![r] = "computed"]
    /\ last_call' = [last_call EXCEPT ![ns[r]] =
            Some([body |-> Get(response[r]),
                  expires |-> IF cached_in_redis[r]
                              THEN Get(redis_store[CacheKey(ns[r])]).expires
                              ELSE now + TTL,
                  shared_ok |-> cached_in_redis[r], computed |-> TRUE])]
    /\ UNCHANGED <<collVars, otherVars, hung, envVars, redis_store, ns, minutes, shared_outcome, local_read,
                   listing, tasks, response, cached_in_redis, calls, prev, ncalls>>

\* ------------------------------------------------------------ environment

Tick ==
    /\ now + TickStep <= MaxTime
    /\ now' = now + TickStep
    /\ UNCHANGED <<redis_client, redis_status, redis_store, trace_cache, reqVars,
                   last_call, ncalls, collVars, otherVars, hung>>

RedisChange ==
    /\ redis_client
    /\ \E s \in {"up", "down", "error"} \ {redis_status} : redis_status' = s
    /\ UNCHANGED <<now, redis_client, redis_store, trace_cache, reqVars,
                   last_call, ncalls, collVars, otherVars, hung>>

\* another client of the Redis server writes, under a key of the handler, a
\* string that is not JSON
ForeignWrite ==
    /\ redis_client
    /\ redis_status = "up"
    /\ \E k \in Keys :
          redis_store' = [redis_store EXCEPT ![k] =
                Some([data |-> <<"raw", "not json">>, expires |-> now + TTL])]
    /\ UNCHANGED <<envVars, trace_cache, reqVars, last_call, ncalls, collVars, otherVars, hung>>

\* a dependency stops answering: its calls never return
Hang ==
    /\ \E d \in {"redis", "cloudwatch"} \ hung : hung' = hung \cup {d}
    /\ UNCHANGED <<envVars, redis_store, trace_cache, reqVars, last_call, ncalls,
                   collVars, otherVars>>

\* ------------------------------------------------------------ collectors

Jobs == {"pg", "redis", "mysql", "opensearch"}

EnvNames == {"COLLECTORS_ENABLED", "DATABASE_URL", "REDIS_URL", "MYSQL_URL",
             "OPENSEARCH_URL"}

\* env::var(name).ok()
EnvVar(name) == IF env[name] THEN Some(<<"env", name>>) ELSE None

\* Option::or_else
OrElse(o, alt) == IF IsSome(o) THEN o ELSE alt

\* AppConfig as main builds it when no 1Password token is set: lines 75-105
Config ==
    [database_url |-> EnvVar("DATABASE_URL"),
     redis_url |-> EnvVar("REDIS_URL"),
     mysql_url |-> OrElse(EnvVar("MYSQL_URL"), Some(<<"default", "localhost:3306">>)),
     opensearch_url |-> OrElse(EnvVar("OPENSEARCH_URL"), Some(<<"default", "localhost:9200">>)),
     collectors_enabled |-> env["COLLECTORS_ENABLED"]]

\* the URL whose presence decides that a job is spawned: lines 202-213
JobUrl(j) ==
    CASE j = "pg" -> Config.database_url
      [] j = "redis" -> Config.redis_url
      [] j = "mysql" -> Config.mysql_url
      [] j = "opensearch" -> Config.opensearch_url

NewJob == [pc |-> "idle", result |-> "none", rows |-> 0, sleep_secs |-> 0,
           stats |-> Err]

\* mutant of Sleeping: the loop is left when the cycle ended in an error
SleepingUnlessError(result, rows) ==
    [pc |-> IF result = "err" THEN "stopped" ELSE "sleeping",
     result |-> result, rows |-> rows,
     sleep_secs |-> CollectorInterval, stats |-> Err]

\* tokio::time::sleep(Duration::from_secs(10)) after collect_*_once returned
Sleeping(result, rows) ==
    [pc |-> "sleeping", result |-> result, rows |-> rows,
     sleep_secs |-> CollectorInterval, stats |-> Err]

handlerVars == <<envVars, redis_store, trace_cache, reqVars, last_call, ncalls>>

\* main, lines 201-214
StartCollectors ==
    /\ main_pc = "startup"
    /\ main_pc' = "serving"
    /\ job' = [j \in Jobs |->
                 IF Config.collectors_enabled /\ IsSome(JobUrl(j))
                 THEN [job[j] EXCEPT !.pc = "polling"]
                 ELSE job[j]]
    /\ UNCHANGED <<env, wakes, hung, handlerVars, otherVars>>

\* mutant of Blocks: the loops are awaited one after the other in main, so a
\* loop that has started keeps the later ones from running
BlocksWhenAwaitedInline(a, b) ==
    /\ job[a].pc # "idle"
    /\ \/ a = "pg"
       \/ a = "redis" /\ b \in {"mysql", "opensearch"}
       \/ a = "mysql" /\ b = "opensearch"

\* job a's pending await keeps job b from running: never, each loop is a
\* task of its own (tokio::spawn, lines 203-212)
Blocks(a, b) == FALSE

Runnable(j) == \A a \in Jobs \ {j} : ~Blocks(a, j)

\* a DIGEST_TEXT value: runs of n characters of w bytes each
Run(n, w) == [n |-> n, w |-> w]
AsciiShort == <<Run(20, 1)>>
AsciiLong == <<Run(120, 1)>>
Straddling == <<Run(99, 1), Run(1, 2)>>
Digests == {AsciiShort, AsciiLong, Straddling}

\* what fetch_all of the digest query gives: lines 360-372
QueryStats ==
    {Err} \cup {Ok(l) : l \in UNION {[1..k -> Digests] : k \in 0..MaxDigests}}

\* str::len, in bytes
RECURSIVE ByteLen(_)
ByteLen(d) ==
    IF d = <<>> THEN 0 ELSE Head(d).n * Head(d).w + ByteLen(Tail(d))

\* str::is_char_boundary
RECURSIVE IsCharBoundary(_, _)
IsCharBoundary(d, idx) ==
    IF d = <<>> THEN idx = 0
    ELSE LET bytes == Head(d).n * Head(d).w
         IN IF idx <= bytes THEN idx % Head(d).w = 0
            ELSE IsCharBoundary(Tail(d), idx - bytes)

\* &digest[0..digest.len().min(100)] panics unless the end is a char boundary
FingerprintPanics(d) == ~IsCharBoundary(d, Min(ByteLen(d), FingerprintMax))

\* the digests written before the loop of lines 389-405 ends or panics
RECURSIVE RowsBeforePanic(_)
RowsBeforePanic(l) ==
    IF l = <<>> \/ FingerprintPanics(Head(l)) THEN 0
    ELSE 1 + RowsBeforePanic(Tail(l))

\* mutant of PersistPg: the insert statement is executed twice
PersistPgTwice(jb, conn, ins) == Sleeping("ok", IF ins THEN 2 ELSE 0)

\* collect_pg_once after its connect: lines 263-283
PersistPg(jb, conn, ins) == Sleeping("ok", IF ins THEN 1 ELSE 0)

\* collect_redis_once after INFO: lines 313-323
PersistRedis(jb, conn, ins) ==
    IF ~env["DATABASE_URL"] THEN Sleeping("ok", 0)
    ELSE IF ~conn THEN Sleeping("err", 0)
    ELSE Sleeping("ok", IF ins THEN 1 ELSE 0)

\* collect_mysql_once after its queries: lines 374-411
PersistMysql(jb, conn, ins) ==
    IF ~IsSome(Config.database_url) \/ ~conn THEN Sleeping("ok", 0)
    ELSE IF ~jb.stats.ok THEN Sleeping("ok", IF ins THEN 1 ELSE 0)
    ELSE LET done == RowsBeforePanic(jb.stats.v)
             rows == IF ins THEN 1 + done ELSE 0
         IN IF done < Len(jb.stats.v)
            THEN [jb EXCEPT !.pc = "panicked", !.rows = rows]
            ELSE Sleeping("ok", rows)

\* collect_opensearch_once after the stats request: lines 470-486
PersistOpensearch(jb, conn, ins) ==
    IF IsSome(Config.database_url) /\ conn
    THEN Sleeping("ok", IF ins THEN 1 ELSE 0)
    ELSE Sleeping("ok", 0)

\* the calls of collect_*_once to the monitored backend: an error leaves
\* through `?`, a call that never returns leaves the task waiting
Poll(j) ==
    /\ job[j].pc = "polling"
    /\ Runnable(j)
    /\ \E out \in {"ok", "err", "hang"},
          st \in (IF j = "mysql" THEN QueryStats ELSE {Err}) :
          job' = [job EXCEPT ![j] =
                    IF out = "ok" THEN [@ EXCEPT !.pc = "persisting", !.stats = st]
                    ELSE IF out = "err" THEN Sleeping("err", 0)
                    ELSE [@ EXCEPT !.pc = "hung"]]
    /\ UNCHANGED <<env, main_pc, wakes, hung, handlerVars, otherVars>>

\* the writes of collect_*_once to the snapshot store, then Ok(())
Persist(j) ==
    /\ job[j].pc = "persisting"
    /\ Runnable(j)
    /\ \E conn \in BOOLEAN, ins \in BOOLEAN :
          job' = [job EXCEPT ![j] =
                    CASE j = "pg" -> PersistPg(@, conn, ins)
                      [] j = "redis" -> PersistRedis(@, conn, ins)
                      [] j = "mysql" -> PersistMysql(@, conn, ins)
                      [] j = "opensearch" -> PersistOpensearch(@, conn, ins)]
    /\ UNCHANGED <<env, main_pc, wakes, hung, handlerVars, otherVars>>

\* the sleep ends and the loop calls collect_*_once again
Wake(j) ==
    /\ job[j].pc = "sleeping"
    /\ Runnable(j)
    /\ wakes < MaxWakes
    /\ wakes' = wakes + 1
    /\ job' = [job EXCEPT ![j] = [NewJob EXCEPT !.pc = "polling"]]
    /\ UNCHANGED <<env, main_pc, hung, handlerVars, otherVars>>

\* ------------------------------------------------------------ inputs

ListItems == <<"l", "i", "s", "t", "-", "i", "t", "e", "m", "s">>
UpdateVault == <<"u", "p", "d", "a", "t", "e", "-", "v", "a", "u", "l", "t">>
DeleteSession == <<"d", "e", "l", "e", "t", "e", "-", "s", "e", "s", "s", "i", "o", "n">>
CreateShare == <<"c", "r", "e", "a", "t", "e", "-", "s", "h", "a", "r", "e">>
CreateVault == <<"c", "r", "e", "a", "t", "e", "-", "v", "a", "u", "l", "t">>
UpdateList == <<"u", "p", "d", "a", "t", "e", "-", "l", "i", "s", "t">>
DeleteUpdate == <<"d", "e", "l", "e", "t", "e", "-", "u", "p", "d", "a", "t", "e">>
VerifyDelete == <<"v", "e", "r", "i", "f", "y", "-", "d", "e", "l", "e", "t", "e">>
UserActivity == <<"u", "s", "e", "r", "-", "a", "c", "t", "i", "v", "i", "t", "y">>
SearchAll == <<"s", "e", "a", "r", "c", "h">>
GetItem == <<"/", "i", "t", "e", "m", "s", "/", "g", "e", "t">>
UpperGet == <<"G", "E", "T", "-", "i", "t", "e", "m">>
Login == <<"l", "o", "g", "i", "n">>

\* every sequence of at most n distinct names: the orders a HashSet may iterate in
Listings(names, n) ==
    {s \in UNION {[1..k -> names] : k \in 0..n} :
        \A i, j \in 1..Len(s) : i # j => s[i] # s[j]}

OkAll(S) == {Ok(x) : x \in S}

CacheWorld ==
    [listings |-> {Err, Ok(<<ListItems>>)},
     lat |-> {Err, Ok(F64(50) + 1)},
     req |-> {Ok(F64(3))},
     err |-> {Ok(F64(0))}]

\* every query outcome of a sub-task, over two or three endpoints
FailWorld ==
    [listings |-> {Err} \cup OkAll(Listings({ListItems, UpdateVault, CreateShare},
                                            MaxEndpointsFail)),
     lat |-> {Err, Ok(F64(50) + 1)},
     req |-> {Err, Ok(F64(0)), Ok(F64(3))},
     err |-> {Err, Ok(F64(2))}]

\* successful queries with equal, nearly equal and distinct latencies
RankWorld ==
    [listings |-> OkAll(Listings({ListItems, UpdateVault, CreateShare, Login},
                                 MaxEndpointsRank)),
     lat |-> OkAll({F64(10), F64(50), F64(50) + 1, F64(200)}),
     req |-> {Ok(F64(1))},
     err |-> {Ok(F64(0))}]

\* one endpoint at a time, over many names
MethodWorld ==
    [listings |-> OkAll(Listings({ListItems, UpdateVault, DeleteSession, CreateShare,
                                  CreateVault, UpdateList, DeleteUpdate, VerifyDelete,
                                  UserActivity, SearchAll, GetItem, UpperGet, Login},
                                 MaxEndpointsMethod)),
     lat |-> OkAll({F64(90), F64(45) + 1}),
     req |-> {Ok(F64(1))},
     err |-> {Ok(F64(0)), Ok(F64(1))}]

ShareUpdate == <<"s", "h", "a", "r", "e", "-", "u", "p", "d", "a", "t", "e">>
UpdateCreate == <<"u", "p", "d", "a", "t", "e", "-", "c", "r", "e", "a", "t", "e">>
ShareItem == <<"s", "h", "a", "r", "e", "-", "i", "t", "e", "m">>

\* one endpoint at a time, names of every span tier, durations around the divisors
SpanWorld ==
    [listings |-> OkAll(Listings({CreateVault, CreateShare, ShareItem, ShareUpdate,
                                  UpdateCreate, UpdateVault, ListItems, Login},
                                 MaxEndpointsSpans)),
     lat |-> OkAll({F64(0), F64(29) + 1, F64(40), F64(90), F64(200)}),
     req |-> {Ok(F64(1))},
     err |-> {Ok(F64(0))}]

\* an endpoint name made from a number
EndpointName(i) == <<"g", "e", "t", "-">> \o Digits(i)

\* listings of every length up to MaxListed, every query answering
FanoutWorld ==
    [listings |-> {Ok([i \in 1..n |-> EndpointName(i)]) : n \in 0..MaxListed},
     lat |-> {Ok(F64(50))},
     req |-> {Ok(F64(1))},
     err |-> {Ok(F64(0))}]

\* one endpoint whose p95 latency varies within and across a millisecond
IdWorld ==
    [listings |-> {Ok(<<ListItems>>)},
     lat |-> OkAll({F64(50), F64(50) + 1, F64(70)}),
     req |-> {Ok(F64(1))},
     err |-> {Ok(F64(0))}]

\* ------------------------------------------------------------ query window

\* i64 and u64 are modelled Bits wide: i64 is -2^(Bits-1) .. 2^(Bits-1)-1 and
\* u64 is 0 .. 2^Bits-1
Bits == 13
\* the minutes parameters tried, besides the extreme values of i64
MaxMinutes == 80
SecondsPerMinute == 60

RECURSIVE Pow2(_)
Pow2(n) == IF n = 0 THEN 1 ELSE 2 * Pow2(n - 1)

I64Min == -Pow2(Bits - 1)
I64Max == Pow2(Bits - 1) - 1
I64 == I64Min..I64Max
WrapI64(x) == ((x - I64Min) % Pow2(Bits)) + I64Min

\* the build decides what an overflowing i64 multiplication does
Builds == {"debug", "release"}

\* a * b on i64: with overflow checks (debug) an overflow panics, without
\* them (release) the product wraps
MulI64(a, b, build) ==
    IF a * b \in I64 THEN Ok(a * b)
    ELSE IF build = "debug" THEN Err
    ELSE Ok(WrapI64(a * b))

\* x as u64 for an i64 x: the two's complement bits of x read as unsigned
I64AsU64(x) == x % Pow2(Bits)

\* SystemTime - Duration: panics when the result is not representable
SystemTimeSub(t, secs) ==
    IF t - secs >= I64Min THEN Ok(t - secs) ELSE Err

\* no window has been computed
NoWindow == [handler |-> "none", minutes |-> 0, panicked |-> FALSE,
             start |-> 0, end |-> 0]

\* let now = SystemTime::now();
\* let start = now - Duration::from_secs((minutes * 60) as u64);
WindowOf(handler, m, at, build) ==
    LET secs == MulI64(m, SecondsPerMinute, build)
        start == IF secs.ok THEN SystemTimeSub(at, I64AsU64(secs.v)) ELSE Err
    IN  [handler |-> handler, minutes |-> m, panicked |-> ~start.ok,
         start |-> start.v, end |-> at]

\* q.get("minutes").and_then(|v| v.parse().ok()).unwrap_or(60)
ParseMinutes(q) == IF IsSome(q) THEN Get(q) ELSE DefaultMinutes

\* the minutes query parameters: absent or not an i64 (None), or an i64
MinutesParams ==
    {None} \cup {Some(m) : m \in (-MaxMinutes..MaxMinutes) \cup {I64Min, I64Max}}

\* get_cw_summary up to the adapter's window: the first adapter call,
\* cw_get_p95_latency, computes it from the handler's minutes
GetCwSummary ==
    /\ \E q \in MinutesParams, b \in Builds :
          window' = WindowOf("summary", ParseMinutes(q), now, b)
    /\ UNCHANGED <<handlerVars, collVars, hung, vault, signup>>

\* get_cw_metric_timeseries up to the window of cw_get_metric_timeseries
GetCwMetricTimeseries ==
    /\ \E q \in MinutesParams, b \in Builds :
          window' = WindowOf("timeseries", ParseMinutes(q), now, b)
    /\ UNCHANGED <<handlerVars, collVars, hung, vault, signup>>

\* ------------------------------------------------------------ signup

Usernames == {"alice", "bob"}

\* signup requests each client makes, one after the other
MaxSignups == 2

\* a client that has not called signup
NewSignup == [pc |-> "idle", username |-> "", resp |-> "none", n |-> 0]

\* secrets::user_exists: get_item_field(vault, username, "username").is_ok(),
\* true when `op read` succeeds: the item is there and the CLI call worked
UserExists(u, op_ok) == op_ok /\ vault[u] > 0

\* secrets::create_user: `op item create --title=<username> ...` adds a login
\* item and does not look for an item of that title; Err when the CLI fails
CreateUser(u, op_ok) ==
    IF op_ok THEN Ok([vault EXCEPT ![u] = @ + 1]) ELSE Err

\* signup, lines 626-640: the request arrives and its fields are validated
SignupStart(r) ==
    /\ signup[r].pc \in {"idle", "done"}
    /\ signup[r].n < MaxSignups
    /\ \E u \in Usernames \cup {""} :
          signup' = [signup EXCEPT ![r] =
                IF u = ""
                THEN [pc |-> "done", username |-> u, resp |-> "bad_request",
                      n |-> @.n + 1]
                ELSE [pc |-> "check", username |-> u, resp |-> "none",
                      n |-> @.n + 1]]
    /\ UNCHANGED <<handlerVars, collVars, hung, window, vault>>

\* signup, lines 642-651: the blocking user_exists call and CONFLICT
SignupCheck(r) ==
    /\ signup[r].pc = "check"
    /\ \E op_ok \in BOOLEAN :
          signup' = [signup EXCEPT ![r] =
                IF UserExists(@.username, op_ok)
                THEN [@ EXCEPT !.pc = "done", !.resp = "conflict"]
                ELSE [@ EXCEPT !.pc = "create"]]
    /\ UNCHANGED <<handlerVars, collVars, hung, window, vault>>

\* signup, lines 653-693: the blocking create_user call, then the token
SignupCreate(r) ==
    /\ signup[r].pc = "create"
    /\ \E op_ok \in BOOLEAN :
          LET res == CreateUser(signup[r].username, op_ok)
          IN  /\ vault' = IF res.ok THEN res.v ELSE vault
              /\ signup' = [signup EXCEPT ![r] =
                    [@ EXCEPT !.pc = "done",
                              !.resp = IF res.ok THEN "token" ELSE "error"]]
    /\ UNCHANGED <<handlerVars, collVars, hung, window>>

\* ------------------------------------------------------------ specifications

\* the cache tiers and the request slots when the server starts serving
InitHandler ==
    /\ now = 0
    /\ redis_status = "up"
    /\ redis_store = [k \in Keys |-> None]
    /\ trace_cache = [k \in Keys |-> None]
    /\ pc = [r \in Requests |-> "idle"]
    /\ ns = [r \in Requests |-> "nsA"]
    /\ minutes = [r \in Requests |-> DefaultMinutes]
    /\ shared_outcome = [r \in Requests |-> "none"]
    /\ local_read = [r \in Requests |-> FALSE]
    /\ listing = [r \in Requests |-> "none"]
    /\ tasks = [r \in Requests |-> <<>>]
    /\ response = [r \in Requests |-> None]
    /\ cached_in_redis = [r \in Requests |-> FALSE]
    /\ resp = [r \in Requests |-> None]
    /\ served = [r \in Requests |-> "none"]
    /\ calls = [r \in Requests |-> 0]
    /\ prev = [r \in Requests |-> None]
    /\ last_call = [n \in Namespaces |-> None]
    /\ ncalls = 0
    /\ hung = {}
    /\ window = NoWindow
    /\ vault = [u \in Usernames |-> 0]
    /\ signup = [r \in Requests |-> NewSignup]

\* the server is serving, collectors are not enabled: line 105
InitWith(clients) ==
    /\ redis_client \in clients
    /\ InitHandler
    /\ env = [e \in EnvNames |-> (e = "REDIS_URL") /\ redis_client]
    /\ main_pc = "serving"
    /\ job = [j \in Jobs |-> NewJob]
    /\ wakes = 0

\* redis_url may or may not be configured: main, lines 136-149
Init == InitWith(BOOLEAN)

\* no shared tier configured
InitLocalOnly == InitWith({FALSE})

\* one client calling get_cw_traces again and again, the clock and Redis
Next ==
    \/ Start(1, Namespaces, {DefaultMinutes})
    \/ LookupShared(1)
    \/ LookupLocal(1)
    \/ ListEndpoints(1, CacheWorld)
    \/ SubTaskQuery(1, CacheWorld)
    \/ Join(1)
    \/ StoreShared(1)
    \/ StoreLocal(1)
    \/ Tick
    \/ RedisChange

Spec == Init /\ [][Next]_vars

\* the handler alone, against an adapter world w
Handler(r, w) ==
    \/ Start(r, {"nsA"}, {DefaultMinutes})
    \/ LookupShared(r)
    \/ LookupLocal(r)
    \/ ListEndpoints(r, w)
    \/ SubTaskQuery(r, w)
    \/ Join(r)
    \/ StoreShared(r)
    \/ StoreLocal(r)

NextFail == Handler(1, FailWorld)
SpecFail == InitLocalOnly /\ [][NextFail]_vars

NextRank == Handler(1, RankWorld)
SpecRank == InitLocalOnly /\ [][NextRank]_vars

NextMethod == Handler(1, MethodWorld)
SpecMethod == InitLocalOnly /\ [][NextMethod]_vars

NextSpans == Handler(1, SpanWorld)
SpecSpans == InitLocalOnly /\ [][NextSpans]_vars

\* the minutes query parameter as clients send it: line 727
Windows == {DefaultMinutes, SubWindow}

\* one client asking for one namespace with varying windows
NextWindow ==
    \/ Start(1, {"nsA"}, Windows)
    \/ LookupShared(1)
    \/ LookupLocal(1)
    \/ ListEndpoints(1, CacheWorld)
    \/ SubTaskQuery(1, CacheWorld)
    \/ Join(1)
    \/ StoreShared(1)
    \/ StoreLocal(1)
    \/ Tick
    \/ RedisChange

SpecWindow == Init /\ [][NextWindow]_vars

\* a request against dependencies that may stop answering
NextHang ==
    \/ Start(1, {"nsA"}, {DefaultMinutes})
    \/ LookupShared(1)
    \/ LookupLocal(1)
    \/ ListEndpoints(1, CacheWorld)
    \/ SubTaskQuery(1, CacheWorld)
    \/ Join(1)
    \/ StoreShared(1)
    \/ StoreLocal(1)
    \/ Hang

SpecHang == Init /\ [][NextHang]_vars

\* main up to line 200, in any environment
InitCollectors ==
    /\ env \in [EnvNames -> BOOLEAN]
    /\ redis_client = env["REDIS_URL"]
    /\ InitHandler
    /\ main_pc = "startup"
    /\ job = [j \in Jobs |-> NewJob]
    /\ wakes = 0

NextCollectors ==
    \/ StartCollectors
    \/ \E j \in Jobs : Poll(j)
    \/ \E j \in Jobs : Persist(j)
    \/ \E j \in Jobs : Wake(j)

SpecCollectors == InitCollectors /\ [][NextCollectors]_vars

\* clients of the summary and timeseries handlers, and the clock
NextSummary ==
    \/ GetCwSummary
    \/ GetCwMetricTimeseries
    \/ Tick

SpecSummary == InitLocalOnly /\ [][NextSummary]_vars

\* two clients calling signup, on the worker threads of the runtime
NextSignup ==
    \/ \E r \in Requests : SignupStart(r)
    \/ \E r \in Requests : SignupCheck(r)
    \/ \E r \in Requests : SignupCreate(r)

SpecSignup == InitLocalOnly /\ [][NextSignup]_vars

\* the sub-tasks of request r started their queries in spawn order and each
\* ran to its end before the next started
InSpawnOrder(r) ==
    \A i \in 1..Len(tasks[r]) : \A j \in 1..Len(tasks[r]) :
        (i < j /\ tasks[r][j].stage > 0) => tasks[r][i].stage = 3

\* a request over long listings; of the interleavings of the sub-tasks, which
\* SpecFail and SpecRank explore, only the one in spawn order is followed
NextFanout ==
    \/ Start(1, {"nsA"}, Windows)
    \/ LookupShared(1)
    \/ LookupLocal(1)
    \/ ListEndpoints(1, FanoutWorld)
    \/ (SubTaskQuery(1, FanoutWorld) /\ InSpawnOrder(1)')
    \/ Join(1)
    \/ StoreShared(1)
    \/ StoreLocal(1)

SpecFanout == InitLocalOnly /\ [][NextFanout]_vars

\* two requests in flight at once, and the clock
NextId ==
    \/ Handler(1, IdWorld)
    \/ Handler(2, IdWorld)
    \/ Tick

SpecId == InitLocalOnly /\ [][NextId]_vars

\* one client, a Redis server that comes and goes and that others write to
NextCorrupt ==
    \/ Start(1, {"nsA"}, {DefaultMinutes})
    \/ LookupShared(1)
    \/ LookupLocal(1)
    \/ ListEndpoints(1, CacheWorld)
    \/ SubTaskQuery(1, CacheWorld)
    \/ Join(1)
    \/ StoreShared(1)
    \/ StoreLocal(1)
    \/ RedisChange
    \/ ForeignWrite

SpecCorrupt == Init /\ [][NextCorrupt]_vars

\* one client calling once more than in Spec, for one namespace, and Redis
NextStale ==
    \/ StartUpTo(1, {"nsA"}, {DefaultMinutes}, MaxCalls + 1)
    \/ LookupShared(1)
    \/ LookupLocal(1)
    \/ ListEndpoints(1, CacheWorld)
    \/ SubTaskQuery(1, CacheWorld)
    \/ Join(1)
    \/ StoreShared(1)
    \/ StoreLocal(1)
    \/ RedisChange

SpecStale == Init /\ [][NextStale]_vars

\* ------------------------------------------------------------ properties

HandlerPositions ==
    {"idle", "lookup_shared", "lookup_local", "list_endpoints", "fanout",
     "store_shared", "store_local", "done"}

\* the value a stored payload deserializes to
Payload(entry_data) == entry_data[2]

\* the shared tier is reachable and holds an unexpired entry for key k
SharedHolds(k) ==
    /\ redis_client
    /\ redis_status = "up"
    /\ IsSome(redis_store[k])
    /\ now < Get(redis_store[k]).expires

\* the local tier holds an entry for key k that has not expired
LocalHolds(k) == IsSome(trace_cache[k]) /\ now < Get(trace_cache[k]).expires_at

\* the local tier holds an entry for key k whose expiry has passed
LocalExpired(k) == IsSome(trace_cache[k]) /\ now >= Get(trace_cache[k]).expires_at

\* request r has returned while the entry set by the call before it, for the
\* same namespace, was still within its TTL
WithinTtlOfPrevious(r) ==
    /\ pc[r] = "done"
    /\ IsSome(prev[r])
    /\ Get(prev[r]).computed
    /\ now < Get(prev[r]).expires

RepeatsPrevious(r) ==
    /\ Get(resp[r]).body = Get(prev[r]).body
    /\ calls[r] = 0

\* C1: a second get_cw_traces call for a namespace, made within the 300 s TTL of
\* the entry the first call stored, returns the first call's payload and makes
\* no call to the Metric Source Adapter.
C1_SecondCallWithinTtlIsHit ==
    \A r \in Requests : WithinTtlOfPrevious(r) => RepeatsPrevious(r)

\* C2: once a set has written the shared tier, a get made before the TTL
\* elapses while the shared tier is unreachable is still served the cached
\* payload, by the local tier, without recomputation.
C2_OutageAfterSharedWriteKeepsValue ==
    \A r \in Requests :
        (/\ WithinTtlOfPrevious(r)
         /\ Get(prev[r]).shared_ok
         /\ shared_outcome[r] \in {"unreachable", "error"})
        => (served[r] = "local" /\ RepeatsPrevious(r))

\* C3: when the shared tier is absent, unreachable or answers the lookup with
\* an error and the local tier holds an unexpired entry for the key, the lookup
\* returns that entry's payload in a normal response.
C3_LocalTierServesWhenSharedFails ==
    [][\A r \in Requests :
        (/\ pc[r] = "lookup_local"
         /\ pc'[r] # "lookup_local"
         /\ shared_outcome[r] \in {"absent", "unreachable", "error"}
         /\ LocalHolds(CacheKey(ns[r])))
        => (/\ pc'[r] = "done"
            /\ resp'[r] = Some([status |-> StatusOk,
                                body |-> Payload(Get(trace_cache[CacheKey(ns[r])]).data)])
            /\ served'[r] = "local"
            /\ calls'[r] = 0)]_vars

C3_Witness ==
    \E r \in Requests :
        /\ pc[r] = "done"
        /\ served[r] = "local"
        /\ shared_outcome[r] = "unreachable"
        /\ Get(resp[r]).body.traces # <<>>

\* C4: an expired local entry is a miss although the map still holds the key,
\* no lookup step changes the local map, and an entry of the map changes only
\* when a set for its key writes it.
C4_ExpiredLocalEntryIsMiss ==
    [][/\ \A r \in Requests :
            (pc[r] \in {"lookup_shared", "lookup_local"} /\ pc'[r] # pc[r])
            => /\ trace_cache' = trace_cache
               /\ (pc[r] = "lookup_local" /\ LocalExpired(CacheKey(ns[r])))
                  => (pc'[r] = "list_endpoints" /\ resp'[r] = None)
       /\ \A k \in Keys :
            trace_cache'[k] # trace_cache[k]
            => \E r \in Requests :
                  /\ pc[r] = "store_local"
                  /\ pc'[r] = "done"
                  /\ CacheKey(ns[r]) = k]_vars

C4_Witness ==
    \E r \in Requests :
        /\ pc[r] = "list_endpoints"
        /\ local_read[r]
        /\ LocalExpired(CacheKey(ns[r]))

\* C5: the lookup consults the shared tier before the local tier, and when the
\* shared tier is configured, reachable and holds the key, the call returns
\* that value at once: the local tier is not read and nothing is recomputed.
C5_SharedTierFirst ==
    /\ [][\A r \in Requests :
            (/\ pc[r] = "lookup_shared"
             /\ pc'[r] # "lookup_shared"
             /\ SharedHolds(CacheKey(ns[r])))
            => (/\ pc'[r] = "done"
                /\ resp'[r] = Some([status |-> StatusOk,
                                    body |-> Payload(Get(redis_store[CacheKey(ns[r])]).data)])
                /\ ~local_read'[r]
                /\ calls'[r] = 0
                /\ response'[r] = None)]_vars
    /\ [](\A r \in Requests :
            /\ local_read[r] => shared_outcome[r] \notin {"none", "hit"}
            /\ shared_outcome[r] = "hit" => (pc[r] = "done" /\ ~local_read[r]))

C5_Witness ==
    \E r \in Requests :
        /\ pc[r] = "done"
        /\ served[r] = "shared"
        /\ shared_outcome[r] = "hit"
        /\ ~local_read[r]
        /\ calls[r] = 0
        /\ Get(resp[r]).body.traces # <<>>

\* a step of the handler of request r
HandlerStep(r) ==
    \/ LookupShared(r)
    \/ LookupLocal(r)
    \/ ListEndpoints(r, CacheWorld)
    \/ SubTaskQuery(r, CacheWorld)
    \/ Join(r)
    \/ StoreShared(r)
    \/ StoreLocal(r)

\* C6: whatever the shared tier does at lookup or at store time (no client,
\* connection refused, GET or SETEX failing), the handler is never stopped and
\* its answer is a normal trace response, never an error.
C6_SharedFailureNeverSurfaces ==
    \A r \in Requests :
        /\ pc[r] \in HandlerPositions
        /\ pc[r] \notin {"idle", "done"} => (ENABLED HandlerStep(r))
        /\ pc[r] = "done" =>
              /\ IsSome(resp[r])
              /\ Get(resp[r]).status = StatusOk
              /\ Get(resp[r]).body.namespace = ns[r]

C6_Witness ==
    \E r \in Requests :
        /\ pc[r] = "done"
        /\ redis_client
        /\ shared_outcome[r] \in {"unreachable", "error"}
        /\ served[r] = "computed"
        /\ ~cached_in_redis[r]

\* the number of records of a trace list that are for endpoint e
RECURSIVE CountFor(_, _)
CountFor(traces, e) ==
    IF traces = <<>> THEN 0
    ELSE (IF Head(traces).endpoint = e THEN 1 ELSE 0) + CountFor(Tail(traces), e)

\* the position of endpoint e in the joined result list of request r (0: none)
JoinIndex(r, e) ==
    IF \E i \in 1..Len(tasks[r]) : tasks[r][i].endpoint = e
    THEN CHOOSE i \in 1..Len(tasks[r]) : tasks[r][i].endpoint = e
    ELSE 0

Durations(traces) == [i \in 1..Len(traces) |-> traces[i].duration]
JoinDurations(r) == [i \in 1..Len(tasks[r]) |-> tasks[r][i].latency \div 2]

\* C7: whichever of the per-endpoint queries fail, each failed query is replaced
\* by its default (latency 100, request count 1, error count 0), the sub-task
\* runs to its end, the endpoint is processed and the call returns a response.
C7_QueryFailuresBecomeDefaults ==
    \A r \in Requests :
        /\ \A i \in 1..Len(tasks[r]) :
            LET t == tasks[r][i] IN
            /\ (0 \in t.failed) => t.latency = 200
            /\ (1 \in t.failed) => t.requests = 2
            /\ (2 \in t.failed) => t.errors = 0
            /\ (t.failed # {} /\ t.stage < 3) => (ENABLED SubTaskQuery(r, FailWorld))
            /\ (IsSome(response[r]) /\ 1 \in t.failed)
               => CountFor(Get(response[r]).traces, t.endpoint) = 1
            /\ (IsSome(response[r]) /\ 0 \in t.failed /\ t.requests > 0)
               => \E k \in 1..Len(Get(response[r]).traces) :
                     /\ Get(response[r]).traces[k].endpoint = t.endpoint
                     /\ Get(response[r]).traces[k].duration = 100
        /\ (pc[r] = "done" /\ served[r] = "computed")
           => /\ \A i \in 1..Len(tasks[r]) : tasks[r][i].stage = 3
              /\ Get(resp[r]).status = StatusOk
              /\ Get(resp[r]).body = Get(response[r])
        /\ DefaultLatency >= DefaultRequests
        /\ DefaultRequests >= DefaultErrors
        /\ DefaultErrors >= 0

C7_Witness ==
    \E r \in Requests :
        /\ pc[r] = "done"
        /\ served[r] = "computed"
        /\ Len(tasks[r]) = 2
        /\ tasks[r][1].failed = {0, 1, 2}
        /\ tasks[r][2].failed = {1}
        /\ Len(Get(resp[r]).body.traces) = 2

\* C8: an endpoint whose observed request count is 0 gets no TraceRecord, and
\* every endpoint with a request count above 0 gets exactly one.
C8_ZeroRequestsNoTrace ==
    \A r \in Requests :
        IsSome(response[r]) =>
            /\ \A i \in 1..Len(tasks[r]) :
                CountFor(Get(response[r]).traces, tasks[r][i].endpoint)
                    = IF tasks[r][i].requests > 0 THEN 1 ELSE 0
            /\ \A k \in 1..Len(Get(response[r]).traces) :
                JoinIndex(r, Get(response[r]).traces[k].endpoint) # 0

C8_Witness ==
    \E r \in Requests :
        /\ pc[r] = "done"
        /\ served[r] = "computed"
        /\ Len(tasks[r]) = 2
        /\ tasks[r][1].requests = 0
        /\ tasks[r][1].failed = {}
        /\ tasks[r][2].requests > 0
        /\ Len(Get(resp[r]).body.traces) = 1

\* C9: the returned trace list is in order of non-increasing duration, and
\* records of equal duration keep the order they had in the joined results.
C9_RankedByDurationStable ==
    \A r \in Requests :
        IsSome(response[r]) =>
            LET traces == Get(response[r]).traces IN
            /\ Len(traces) = Len(tasks[r])
            /\ \A i, j \in 1..Len(traces) :
                i < j =>
                    /\ traces[i].duration >= traces[j].duration
                    /\ traces[i].duration = traces[j].duration
                       => JoinIndex(r, traces[i].endpoint) < JoinIndex(r, traces[j].endpoint)
            /\ (pc[r] = "done" /\ served[r] = "computed")
               => Get(resp[r]).body.traces = traces

C9_Witness ==
    \E r \in Requests :
        /\ pc[r] = "done"
        /\ served[r] = "computed"
        /\ JoinDurations(r) = <<50, 200, 10>>
        /\ Durations(Get(resp[r]).body.traces) = <<200, 50, 10>>

\* the name has the keyword at some position
HasKeyword(name, kw) ==
    \E i \in 1..Len(name) :
        /\ i + Len(kw) - 1 <= Len(name)
        /\ \A k \in 1..Len(kw) : name[i + k - 1] = kw[k]

ReadKeywords == {kw_get, kw_list, kw_search, kw_verify, kw_activity}

\* C10: the method of a TraceRecord follows the ordered rule table, first match
\* winning: a read keyword gives GET, else "update" gives PUT, else "delete"
\* gives DELETE, else POST.
C10_MethodRuleTable ==
    \A r \in Requests :
        IsSome(response[r]) =>
            \A k \in 1..Len(Get(response[r]).traces) :
                LET t == Get(response[r]).traces[k]
                    read == \E kw \in ReadKeywords : HasKeyword(t.endpoint, kw)
                    update == HasKeyword(t.endpoint, kw_update)
                    delete == HasKeyword(t.endpoint, kw_delete)
                IN /\ read => t.method = "GET"
                   /\ (~read /\ update) => t.method = "PUT"
                   /\ (~read /\ ~update /\ delete) => t.method = "DELETE"
                   /\ (~read /\ ~update /\ ~delete) => t.method = "POST"
                   /\ t.endpoint = ListItems => t.method = "GET"
                   /\ t.endpoint = UpdateVault => t.method = "PUT"
                   /\ t.endpoint = DeleteSession => t.method = "DELETE"
                   /\ t.endpoint = CreateShare => t.method = "POST"

C10_Witness ==
    \E r \in Requests :
        /\ pc[r] = "done"
        /\ served[r] = "computed"
        /\ Len(Get(resp[r]).body.traces) = 1
        /\ Get(resp[r]).body.traces[1].endpoint = DeleteUpdate
        /\ Get(resp[r]).body.traces[1].method = "PUT"

\* C11: the span count of a TraceRecord follows the tiered formula on its
\* integer duration d, first tier winning: "share" or "create" in the name
\* gives 8 + d/30, else "update" gives 7 + d/40, else 4 + d/50.
C11_SpanTiers ==
    \A r \in Requests :
        IsSome(response[r]) =>
            \A k \in 1..Len(Get(response[r]).traces) :
                LET t == Get(response[r]).traces[k]
                    d == t.duration
                    first == HasKeyword(t.endpoint, kw_share)
                             \/ HasKeyword(t.endpoint, kw_create)
                    second == HasKeyword(t.endpoint, kw_update)
                IN /\ first => t.spans = 8 + (d \div 30)
                   /\ (~first /\ second) => t.spans = 7 + (d \div 40)
                   /\ (~first /\ ~second) => t.spans = 4 + (d \div 50)
                   /\ (t.endpoint = CreateVault /\ d = 90) => t.spans = 11

C11_Witness ==
    \E r \in Requests :
        /\ pc[r] = "done"
        /\ served[r] = "computed"
        /\ Len(Get(resp[r]).body.traces) = 1
        /\ Get(resp[r]).body.traces[1].endpoint = CreateVault
        /\ Get(resp[r]).body.traces[1].duration = 90
        /\ Get(resp[r]).body.traces[1].spans = 11

JobAlive == {"polling", "persisting", "sleeping", "hung"}

\* C13: a poll cycle that ends in an error leaves the job asleep for the normal
\* fixed interval, and no started collector job ever reaches a terminal state,
\* whatever data or errors its polls meet.
C13_CollectorsNeverStop ==
    \A j \in Jobs :
        /\ job[j].pc # "idle" => job[j].pc \in JobAlive
        /\ job[j].result = "err"
           => (job[j].pc = "sleeping" /\ job[j].sleep_secs = CollectorInterval)

\* the snapshot store job b writes to is configured
HasStore(b) ==
    IF b = "redis" THEN env["DATABASE_URL"] ELSE IsSome(Config.database_url)

\* C14: collector jobs are isolated. Whatever the other jobs are doing (in
\* error, waiting on a call that never returns, ended), a job that is due can
\* take its next step, a poll that succeeded can persist its snapshot, and a
\* step of one job changes no other job.
C14_CollectorsIsolated ==
    /\ [](\A b \in Jobs :
            /\ job[b].pc = "polling" => ENABLED Poll(b)
            /\ job[b].pc = "persisting" => ENABLED Persist(b)
            /\ (job[b].pc = "persisting" /\ HasStore(b))
               => ENABLED (Persist(b) /\ job'[b].rows >= 1)
            /\ (job[b].pc = "sleeping" /\ wakes < MaxWakes) => ENABLED Wake(b))
    /\ [][main_pc = "serving"
          => \A a \in Jobs : \A b \in Jobs \ {a} :
                job'[a] # job[a] => job'[b] = job[b]]_vars

C14_Witness ==
    /\ job["pg"].pc = "hung"
    /\ job["redis"].pc = "sleeping"
    /\ job["redis"].result = "ok"
    /\ job["redis"].rows = 1
    /\ job["mysql"].pc = "sleeping"
    /\ job["mysql"].result = "err"
    /\ job["opensearch"].pc = "persisting"

\* the environment variable that names the backend of job j
BackendVar(j) ==
    CASE j = "pg" -> "DATABASE_URL"
      [] j = "redis" -> "REDIS_URL"
      [] j = "mysql" -> "MYSQL_URL"
      [] j = "opensearch" -> "OPENSEARCH_URL"

\* C15: a collector job is started only for a configured backend: a job whose
\* backend was not configured is never started and never polls.
C15_OnlyConfiguredJobsRun ==
    \A j \in Jobs : job[j].pc # "idle" => env[BackendVar(j)]

\* C16: every external call on the get_traces path is bounded by a timeout:
\* even when a dependency has stopped answering for good, a request in flight
\* can always take its next step towards its response.
C16_ExternalCallsBounded ==
    \A r \in Requests :
        pc[r] \notin {"idle", "done"} => ENABLED HandlerStep(r)

\* C17: every cache set after a recomputation writes the payload to the local
\* tier, whether or not the shared write succeeded: when the set for key K
\* completes, the local map holds for K that payload with expiry now + 300 s.
C17_SetAlwaysWritesLocal ==
    [][\A r \in Requests :
        (pc[r] = "store_local" /\ pc'[r] = "done")
        => trace_cache'[CacheKey(ns[r])] =
              Some([data |-> JsonToString(Get(response[r])),
                    expires_at |-> now + TTL])]_vars

\* C18: within one endpoint's sub-task the latency, request-count and
\* error-count queries are all in flight together, none waiting for another to
\* complete before it is issued, and a sub-task that has not finished can
\* advance whatever the sub-tasks of the other endpoints are doing.
C18_QueriesConcurrent ==
    \A r \in Requests :
        pc[r] = "fanout" =>
            \A i \in 1..Len(tasks[r]) :
                /\ Issued(tasks[r][i]) = {0, 1, 2}
                /\ tasks[r][i].stage < 3
                   => ENABLED (/\ SubTaskQuery(r, FailWorld)
                               /\ tasks'[r][i] # tasks[r][i])

\* every sub-task of request r has completed its three queries
AllCompleted(r) == \A i \in 1..Len(tasks[r]) : tasks[r][i].stage = 3

\* the number of sub-tasks of request r whose endpoint had requests
WithRequests(r) ==
    Cardinality({i \in 1..Len(tasks[r]) : tasks[r][i].requests > 0})

\* C19: the fan-in is a barrier. On a miss the response value is built, the
\* cache is written and the response is returned only after every spawned
\* sub-task has completed, and response and cached payload hold a record for
\* every endpoint of the complete set that had requests.
C19_FanInBarrier ==
    /\ [](\A r \in Requests :
            (pc[r] \in {"store_shared", "store_local"}
             \/ (pc[r] = "done" /\ served[r] = "computed"))
            => /\ AllCompleted(r)
               /\ Len(Get(response[r]).traces) = WithRequests(r)
               /\ \A i \in 1..Len(tasks[r]) :
                    tasks[r][i].requests > 0
                    => \E k \in 1..Len(Get(response[r]).traces) :
                          /\ Get(response[r]).traces[k].endpoint = tasks[r][i].endpoint
                          /\ 2 * Get(response[r]).traces[k].duration <= tasks[r][i].latency
                          /\ tasks[r][i].latency < 2 * Get(response[r]).traces[k].duration + 2
               /\ pc[r] = "done"
                  => /\ Get(resp[r]).body = Get(response[r])
                     /\ Payload(Get(trace_cache[CacheKey(ns[r])]).data) = Get(response[r]))
    /\ [][\A r \in Requests :
            (\/ (response'[r] # response[r] /\ IsSome(response'[r]))
             \/ (resp'[r] # resp[r] /\ IsSome(resp'[r]))
             \/ (/\ pc[r] \in {"store_shared", "store_local"}
                 /\ \/ trace_cache'[CacheKey(ns[r])] # trace_cache[CacheKey(ns[r])]
                    \/ redis_store'[CacheKey(ns[r])] # redis_store[CacheKey(ns[r])]))
            => (AllCompleted(r) /\ tasks'[r] = tasks[r])]_vars

C19_Witness ==
    \E r \in Requests :
        /\ pc[r] = "done"
        /\ served[r] = "computed"
        /\ Len(tasks[r]) = 2
        /\ tasks[r][1].failed # {}
        /\ Len(Get(resp[r]).body.traces) = 2

\* C20: get_cw_traces answers with an empty trace list only when the endpoint
\* set of the namespace is genuinely empty: the listing succeeded and named no
\* endpoint. No failed external call produces an empty result.
C20_EmptyOnlyWhenNoEndpoints ==
    \A r \in Requests :
        (/\ pc[r] = "done"
         /\ served[r] = "computed"
         /\ Get(resp[r]).body.traces = <<>>)
        => (listing[r] = "ok" /\ tasks[r] = <<>>)

\* C21: the fan-out is bounded: on a miss at most 15 sub-tasks are spawned,
\* for the first 15 endpoints listed, the trace list returned has at most 15
\* records however long the listing is, and every sub-task queries the
\* 5-minute window whatever window the request asked for.
C21_FanoutBounded ==
    \A r \in Requests :
        /\ Len(tasks[r]) <= 15
        /\ \A i \in 1..Len(tasks[r]) :
              /\ tasks[r][i].window = 5
              /\ tasks[r][i].endpoint = EndpointName(i)
        /\ IsSome(response[r]) => Len(Get(response[r]).traces) <= 15
        /\ IsSome(resp[r]) => Len(Get(resp[r]).body.traces) <= 15

C21_Witness ==
    \E r \in Requests :
        /\ pc[r] = "done"
        /\ served[r] = "computed"
        /\ minutes[r] = DefaultMinutes
        /\ Len(tasks[r]) = 15
        /\ Len(Get(resp[r]).body.traces) = 15
        /\ ncalls = 1

\* the records of the response value computed by request r, each with the
\* latency its sub-task measured
Measured(r) ==
    IF IsSome(response[r])
    THEN {[rec |-> Get(response[r]).traces[p[1]], latency |-> tasks[r][p[2]].latency] :
            p \in {p \in (1..Len(Get(response[r]).traces)) \X (1..Len(tasks[r])) :
                     tasks[r][p[2]].endpoint = Get(response[r]).traces[p[1]].endpoint}}
    ELSE {}

\* C22 as stated: two records synthesized for the same endpoint with the same
\* duration (integer ms) have the same id, in the same or in different calls.
C22_IdStableForDuration ==
    \A r \in Requests : \A q \in Requests :
        \A a \in Measured(r) : \A b \in Measured(q) :
            (a.rec.endpoint = b.rec.endpoint /\ a.rec.duration = b.rec.duration)
            => a.rec.id = b.rec.id

\* C22, amended: two records synthesized for the same endpoint from the same
\* measured latency (the f64 before it is cut to integer ms) have the same
\* id, in the same or in different calls and whenever they are computed.
C22_IdStableForLatency ==
    \A r \in Requests : \A q \in Requests :
        \A a \in Measured(r) : \A b \in Measured(q) :
            (a.rec.endpoint = b.rec.endpoint /\ a.latency = b.latency)
            => a.rec.id = b.rec.id

C22_Witness ==
    /\ IsSome(response[1])
    /\ IsSome(response[2])
    /\ \E a \in Measured(1) : \E b \in Measured(2) :
          /\ a.rec.endpoint = b.rec.endpoint
          /\ a.latency = F64(50) + 1
          /\ b.latency = F64(50) + 1
          /\ a.rec.timestamp # b.rec.timestamp
          /\ a.rec.id = b.rec.id

\* the state of job j in the terms of the collector state machine: a job
\* waiting on a call of its poll that does not return is still Polling
Phase(jb) == IF jb.pc = "hung" THEN "polling" ELSE jb.pc

\* C23 as stated: the only transitions of a collector job are Idle -> Polling
\* -> Persisting -> Sleeping -> Polling: Sleeping is entered from Persisting
\* only, Polling (after the first) from Sleeping only.
C23_FourStateCycle ==
    [][\A j \in Jobs :
        Phase(job'[j]) # Phase(job[j])
        => <<Phase(job[j]), Phase(job'[j])>> \in
              {<<"idle", "polling">>, <<"polling", "persisting">>,
               <<"persisting", "sleeping">>, <<"sleeping", "polling">>}]_vars

\* C23, amended: a collector job moves Idle -> Polling when spawned, Polling ->
\* Persisting when its poll succeeded, Polling -> Sleeping (nothing persisted)
\* when its poll failed, Persisting -> Sleeping, Sleeping -> Polling; the only
\* other transition is the end of the MySQL job in Persisting (see C13).
C23_CycleWithPollFailure ==
    [][\A j \in Jobs :
        Phase(job'[j]) # Phase(job[j])
        => \/ /\ Phase(job[j]) = "idle"
              /\ Phase(job'[j]) = "polling"
              /\ main_pc = "startup"
           \/ /\ Phase(job[j]) = "polling"
              /\ Phase(job'[j]) = "persisting"
           \/ /\ Phase(job[j]) = "polling"
              /\ Phase(job'[j]) = "sleeping"
              /\ job'[j].result = "err"
              /\ job'[j].rows = 0
           \/ /\ Phase(job[j]) = "persisting"
              /\ Phase(job'[j]) = "sleeping"
           \/ /\ Phase(job[j]) = "sleeping"
              /\ Phase(job'[j]) = "polling"
           \/ /\ j = "mysql"
              /\ Phase(job[j]) = "persisting"
              /\ Phase(job'[j]) = "panicked"]_vars

C23_Witness ==
    /\ wakes = 2
    /\ job["pg"].pc = "sleeping"
    /\ job["pg"].result = "err"
    /\ job["redis"].pc = "sleeping"
    /\ job["redis"].result = "ok"
    /\ job["redis"].rows = 1
    /\ job["mysql"].pc = "polling"
    /\ job["opensearch"].pc = "polling"

\* C24 as stated: in every poll cycle of every collector job at most one row
\* is persisted.
C24_OneRowPerCycle ==
    \A j \in Jobs : job[j].rows <= 1

\* the rows a cycle of job j may write, given what its poll returned
RowsAllowed(j, jb) ==
    IF j = "mysql" /\ jb.stats.ok THEN 1 + Len(jb.stats.v) ELSE 1

\* C24, amended: in a poll cycle the Postgres, Redis and OpenSearch jobs
\* persist at most one row and the MySQL job at most one connection row plus
\* one row per digest its poll returned; nothing is retried within the cycle:
\* the persisting step is taken once, it may write nothing, and the job then
\* sleeps until the next cycle.
C24_NoRetryWithinCycle ==
    /\ [][\A j \in Jobs :
            job[j].pc = "persisting"
            => /\ job'[j].rows <= RowsAllowed(j, job[j])
               /\ job'[j] # job[j]
                  => /\ job'[j].pc # "persisting"
                     /\ job'[j].pc # "panicked" => job'[j].pc = "sleeping"]_vars
    /\ [](\A j \in Jobs :
            /\ job[j].pc \in {"idle", "polling", "hung", "persisting"}
               => job[j].rows = 0
            /\ job[j].pc = "persisting"
               => ENABLED (/\ Persist(j)
                           /\ job'[j].rows = 0
                           /\ job'[j].pc = "sleeping"))

C24_Witness ==
    /\ job["mysql"].pc = "sleeping"
    /\ job["mysql"].rows = 2
    /\ job["pg"].pc = "sleeping"
    /\ job["pg"].result = "ok"
    /\ job["pg"].rows = 0
    /\ job["opensearch"].pc = "sleeping"
    /\ job["opensearch"].rows = 1

\* the shared tier answers the GET for key k with a string that is not JSON
SharedHoldsGarbage(k) == SharedHolds(k) /\ Get(redis_store[k]).data[1] = "raw"

\* C25 as stated: a call that met a cached payload it could not deserialize
\* recomputes from the Metric Source Adapter and stores the fresh payload.
C25_BadPayloadRecomputes ==
    \A r \in Requests :
        (pc[r] = "done" /\ shared_outcome[r] = "bad_payload")
        => (served[r] = "computed" /\ calls[r] > 0)

\* C25, amended: a shared-tier payload that fails to deserialize is treated as
\* a miss of the shared tier: the call returns neither an error nor the bad
\* payload, it goes on to the local tier, answers from an unexpired local entry
\* if there is one and otherwise recomputes and stores the fresh payload; the
\* local tier itself never holds a payload that fails to deserialize.
C25_BadPayloadIsSharedMiss ==
    /\ [][\A r \in Requests :
            LET k == CacheKey(ns[r])
            IN /\ (/\ pc[r] = "lookup_shared"
                   /\ pc'[r] # "lookup_shared"
                   /\ SharedHoldsGarbage(k))
                  => (/\ pc'[r] = "lookup_local"
                      /\ shared_outcome'[r] = "bad_payload"
                      /\ resp'[r] = None
                      /\ redis_store' = redis_store)
               /\ (/\ pc[r] = "lookup_local"
                   /\ pc'[r] # "lookup_local"
                   /\ shared_outcome[r] = "bad_payload")
                  => IF LocalHolds(k)
                     THEN /\ pc'[r] = "done"
                          /\ calls'[r] = 0
                          /\ resp'[r] = Some([status |-> StatusOk,
                                              body |-> Payload(Get(trace_cache[k]).data)])
                     ELSE pc'[r] = "list_endpoints"
               /\ (/\ pc[r] = "store_shared"
                   /\ pc'[r] # "store_shared"
                   /\ redis_client /\ redis_status = "up")
                  => redis_store'[k] = Some([data |-> JsonToString(Get(response[r])),
                                             expires |-> now + TTL])]_vars
    /\ [](\A k \in Keys :
            IsSome(trace_cache[k]) => Get(trace_cache[k]).data[1] = "json")
    /\ [](\A r \in Requests :
            (pc[r] = "done" /\ shared_outcome[r] = "bad_payload")
            => /\ Get(resp[r]).status = StatusOk
               /\ served[r] \in {"local", "computed"}
               /\ Get(resp[r]).body.namespace = ns[r]
               /\ served[r] = "computed"
                  => /\ calls[r] > 0
                     /\ \/ cached_in_redis[r]
                        \/ Payload(Get(trace_cache[CacheKey(ns[r])]).data)
                              = Get(resp[r]).body)

C25_Witness ==
    \E r \in Requests :
        /\ pc[r] = "done"
        /\ shared_outcome[r] = "bad_payload"
        /\ served[r] = "computed"
        /\ cached_in_redis[r]
        /\ redis_store[CacheKey(ns[r])] =
              Some([data |-> JsonToString(Get(resp[r]).body), expires |-> now + TTL])

\* C26: the local tier is written under an exclusive lock. When several
\* callers miss on the same key and each recomputes and sets it, every write
\* puts one whole entry (the writer's payload with the writer's expiry) and the
\* map afterwards holds exactly the entry of the last writer, never a mixture;
\* reads leave the map as it is.
C26_LocalEntryIsWhole ==
    /\ [][\A k \in Keys :
            trace_cache'[k] # trace_cache[k]
            => \E r \in Requests :
                  /\ pc[r] = "store_local"
                  /\ pc'[r] = "done"
                  /\ CacheKey(ns[r]) = k
                  /\ trace_cache'[k] = Some([data |-> JsonToString(Get(response[r])),
                                             expires_at |-> now + TTL])]_vars
    /\ [](\A n \in Namespaces :
            IsSome(trace_cache[CacheKey(n)])
            => /\ IsSome(last_call[n])
               /\ Get(trace_cache[CacheKey(n)]).data = JsonToString(Get(last_call[n]).body)
               /\ Get(trace_cache[CacheKey(n)]).expires_at = Get(last_call[n]).expires)

C26_Witness ==
    /\ pc[1] = "done"
    /\ pc[2] = "done"
    /\ served[1] = "computed"
    /\ served[2] = "computed"
    /\ ns[1] = ns[2]
    /\ Get(response[1]) # Get(response[2])
    /\ Get(response[1]).traces[1].timestamp < Get(response[2]).traces[1].timestamp
    /\ Get(trace_cache[CacheKey(ns[1])]).data = JsonToString(Get(response[1]))
    /\ Get(trace_cache[CacheKey(ns[1])]).expires_at = now + TTL

\* C27: a hit, in either tier, returns the payload written by the most recent
\* completed set for the key: a call that follows a call which recomputed and
\* stored a payload, and that is itself served from a cache tier, returns that
\* payload, whatever outages and recoveries of the shared tier lie between.
C27_HitReturnsLatestSet ==
    \A r \in Requests :
        (/\ pc[r] = "done"
         /\ served[r] \in {"shared", "local"}
         /\ IsSome(prev[r])
         /\ Get(prev[r]).computed)
        => Get(resp[r]).body = Get(prev[r]).body

\* C28: staleness is bounded by the TTL in both tiers. Every entry is written
\* with expiry 300 s after its set; a call answered from a cache tier returns
\* the payload of an entry set less than 300 s before; and a lookup, hit or
\* miss, changes neither tier, so a hit never extends an expiry.
C28_StalenessBounded ==
    [][\A r \in Requests :
        LET k == CacheKey(ns[r])
        IN /\ (pc[r] \in {"lookup_shared", "lookup_local"} /\ pc'[r] # pc[r])
              => /\ redis_store' = redis_store
                 /\ trace_cache' = trace_cache
           /\ (pc[r] = "lookup_shared" /\ pc'[r] = "done")
              => /\ IsSome(redis_store[k])
                 /\ Get(resp'[r]).body = Payload(Get(redis_store[k]).data)
                 /\ now - (Get(redis_store[k]).expires - 300) < 300
           /\ (pc[r] = "lookup_local" /\ pc'[r] = "done")
              => /\ IsSome(trace_cache[k])
                 /\ Get(resp'[r]).body = Payload(Get(trace_cache[k]).data)
                 /\ now - (Get(trace_cache[k]).expires_at - 300) < 300
           /\ (pc[r] = "store_shared" /\ redis_store'[k] # redis_store[k])
              => Get(redis_store'[k]).expires = now + 300
           /\ (pc[r] = "store_local" /\ trace_cache'[k] # trace_cache[k])
              => Get(trace_cache'[k]).expires_at = now + 300]_vars

C28_Witness ==
    \E r \in Requests :
        /\ pc[r] = "done"
        /\ served[r] = "local"
        /\ now = 200
        /\ Get(trace_cache[CacheKey(ns[r])]).expires_at = 300
        /\ Get(resp[r]).body = Payload(Get(trace_cache[CacheKey(ns[r])]).data)
        /\ Get(resp[r]).body.traces # <<>>
        /\ Get(resp[r]).body.traces[1].timestamp = 0

\* C29: for every value of the minutes parameter given to the summary and
\* timeseries handlers (0, negative and very large ones included), the
\* metric adapter computes its query window without overflow or panic, and
\* the window has start <= end and end - start = minutes * 60 seconds.
C29_WindowAlwaysValid ==
    window.handler # "none" =>
        /\ ~window.panicked
        /\ window.start <= window.end
        /\ window.end - window.start = window.minutes * SecondsPerMinute

\* C30: signup never creates a user for a username that already exists:
\* however concurrent signup requests for one username interleave, the vault
\* holds at most one item for it, and two requests for it are never both
\* answered with a token.
C30_SignupNeverDuplicates ==
    /\ \A u \in Usernames : vault[u] <= 1
    /\ \A r1, r2 \in Requests :
          (/\ r1 # r2
           /\ signup[r1].username = signup[r2].username
           /\ signup[r1].resp = "token")
          => signup[r2].resp # "token"

====
